---- MODULE Spec2Model ----
(***************************************************************************)
(* Stratus ATC X-Plane adapter plugin (stratus_plugin.c).                  *)
(*                                                                         *)
(* The plugin is driven by the host (X-Plane) on one thread: the four      *)
(* lifecycle callbacks XPluginStart / XPluginStop / XPluginEnable /        *)
(* XPluginDisable and the periodic FlightLoopCallback.  Each tick writes   *)
(* the telemetry document to "<g_input_file>.tmp" and renames it onto      *)
(* g_input_file, then calls ReadCommandsJSONL.  The client is a second     *)
(* process that opens g_input_file and appends to g_output_file at any     *)
(* moment, also between two statements of a tick.                          *)
(***************************************************************************)
EXTENDS Integers, Sequences, FiniteSets, TLC

(* ------------------------------ bounds --------------------------------- *)

\* Flight-loop ids the host can hand out (XPLMCreateFlightLoop results).
MaxLoops == 2
\* Lines (complete records or fragments) the client appends in one run.
MaxAppend == 2
\* time(NULL) returns 1000 .. 1000 + MaxTime.
MaxTime == 1
\* A data ref getter returns 1 .. MaxVal (hundredths for float/double refs).
MaxVal == 1

Times == 1000 .. (1000 + MaxTime)
SimVals == 1 .. MaxVal
LoopIds == 1 .. MaxLoops

\* static XPLMFlightLoopID g_flight_loop_id = NULL;
NULL == 0

(* --------------------------- data ref handles -------------------------- *)

DoubleRefs == {"dr_lat", "dr_lon", "dr_alt_msl"}
FloatRefs == {"dr_alt_agl", "dr_hdg_mag", "dr_hdg_true", "dr_pitch", "dr_roll",
              "dr_gnd_speed", "dr_ias", "dr_tas", "dr_vs",
              "dr_ap_alt", "dr_ap_hdg", "dr_ap_vs"}
IntRefs == {"dr_on_ground", "dr_paused", "dr_com1_freq", "dr_com1_stdby",
            "dr_com2_freq", "dr_com2_stdby", "dr_nav1_freq", "dr_nav2_freq",
            "dr_xpdr_code", "dr_xpdr_mode"}
DataRefs == DoubleRefs \cup FloatRefs \cup IntRefs

\* What XPLMFindDataRef answers in one host session: the names it resolves.
\* Every name resolved, or three of them (one of each printf shape) missing.
BindingChoices == {DataRefs, DataRefs \ {"dr_alt_agl", "dr_on_ground", "dr_ap_vs"}}

\* XPLMGetNthAircraftModel(0, acf_file, acf_path)
AcfFile == "B738.acf"

VARIABLES
  g_flight_loop_id,  \* the plugin's handle: NULL or a flight-loop id
  g_log_fp,          \* TRUE iff the log FILE* is open
  dr,                \* the handles that are not NULL (a set of names)
  fl,                \* host: LoopIds -> "none" | "idle" | "sched"
  host_datarefs,     \* host: the names XPLMFindDataRef resolves
  pc,                \* position of the running tick, "Idle" between ticks
  running,           \* the flight loop whose callback is running, or NULL
  pub,               \* file g_input_file (simAPI_input.json)
  tmp,               \* file g_input_file + ".tmp"
  cmdlog,            \* file g_output_file (simAPI_output.jsonl): its lines
  log_tail,          \* file g_log_file: its last line
  observed,          \* client: what its last open of g_input_file read
  applied,           \* the ids of the records handed to the applier, in order
  appended,          \* client: how many lines it has started so far
  started,           \* history: the host's last Start/Stop call was a Start
  enabled,           \* history: Enable was called while started, and neither
                     \* Disable nor Stop since
  doubleStart        \* history: some XPluginStart came with no Stop before it

vars == <<g_flight_loop_id, g_log_fp, dr, fl, host_datarefs, pc, running, pub,
          tmp, cmdlog, log_tail, observed, applied, appended, started,
          enabled, doubleStart>>

progVars == <<g_flight_loop_id, g_log_fp, dr, fl, host_datarefs>>
fileVars == <<pub, tmp, cmdlog, log_tail>>
histVars == <<started, enabled, doubleStart>>
tickVars == <<pc, running>>
clientVars == <<observed, appended>>

(* ------------------------------- files --------------------------------- *)

NoFile == [exists |-> FALSE, data |-> <<>>]
File(d) == [exists |-> TRUE, data |-> d]

(* ----------------------- the telemetry document ------------------------ *)

\* dr_x ? XPLMGetData*(dr_x) : 0
ReadRef(handles, name, v) == IF name \in handles THEN v ELSE 0

\* printf("%.2f") of a value held in hundredths: both decimals are printed.
Fmt2(x) == x
\* printf("%.8f"): eight decimals, here in units of 1e-8.
Fmt8(x) == x * 1000000
\* printf("%.0f"): rounded to a whole number, ties to even.
Fmt0(x) ==
  LET q == x \div 100
      r == x % 100
  IN  IF r > 50 \/ (r = 50 /\ q % 2 = 1) THEN q + 1 ELSE q
\* on_gnd ? "true" : "false"
FmtBool(x) == IF x # 0 THEN "true" ELSE "false"

Tok(k, x) == [key |-> k, val |-> x]

\* The 44 fprintf calls of WriteTelemetryJSON, one token each, in order.
Serialize(now, handles, v) ==
  LET R(name) == ReadRef(handles, name, v) IN
  << Tok("{", ""),
     Tok("timestamp", now),
     Tok("simulator", "X-Plane"),
     Tok("aircraft", AcfFile),
     Tok("position {", ""),
     Tok("latitude", Fmt8(R("dr_lat"))),
     Tok("longitude", Fmt8(R("dr_lon"))),
     Tok("altitude_msl_m", Fmt2(R("dr_alt_msl"))),
     Tok("altitude_agl_m", Fmt2(R("dr_alt_agl"))),
     Tok("},", ""),
     Tok("orientation {", ""),
     Tok("heading_mag", Fmt2(R("dr_hdg_mag"))),
     Tok("heading_true", Fmt2(R("dr_hdg_true"))),
     Tok("pitch", Fmt2(R("dr_pitch"))),
     Tok("roll", Fmt2(R("dr_roll"))),
     Tok("},", ""),
     Tok("speed {", ""),
     Tok("ground_speed_mps", Fmt2(R("dr_gnd_speed"))),
     Tok("ias_kts", Fmt2(R("dr_ias"))),
     Tok("tas_mps", Fmt2(R("dr_tas"))),
     Tok("vertical_speed_fpm", Fmt2(R("dr_vs"))),
     Tok("},", ""),
     Tok("radios {", ""),
     Tok("com1_hz", R("dr_com1_freq")),
     Tok("com1_standby_hz", R("dr_com1_stdby")),
     Tok("com2_hz", R("dr_com2_freq")),
     Tok("com2_standby_hz", R("dr_com2_stdby")),
     Tok("nav1_hz", R("dr_nav1_freq")),
     Tok("nav2_hz", R("dr_nav2_freq")),
     Tok("},", ""),
     Tok("transponder {", ""),
     Tok("code", R("dr_xpdr_code")),
     Tok("mode", R("dr_xpdr_mode")),
     Tok("},", ""),
     Tok("autopilot {", ""),
     Tok("altitude_ft", Fmt0(R("dr_ap_alt"))),
     Tok("heading", Fmt0(R("dr_ap_hdg"))),
     Tok("vs_fpm", Fmt0(R("dr_ap_vs"))),
     Tok("},", ""),
     Tok("state {", ""),
     Tok("on_ground", FmtBool(R("dr_on_ground"))),
     Tok("paused", FmtBool(R("dr_paused"))),
     Tok("}", ""),
     Tok("}", "") >>

NumFprintf == 44

\* The fprintf call at which the disk fills: that call and every later one of
\* the same stream write nothing.  0: an empty file; 43: all but the last brace.
FailPoints == {0, 43}

\* A document a reader can parse: all 44 pieces, the closing brace included.
IsComplete(d) == Len(d) = NumFprintf
IsPartial(f) == f.exists /\ ~IsComplete(f.data)

(* ------------------------------- logging ------------------------------- *)

\* Log(level, fmt, ...): nothing when the log is not open.
Log(fp, tail, msg) == IF fp THEN msg ELSE tail

(* ------------------------------- Init ---------------------------------- *)

Init ==
  /\ g_flight_loop_id = NULL
  /\ g_log_fp = FALSE
  /\ dr = {}
  /\ fl = [l \in LoopIds |-> "none"]
  /\ host_datarefs \in BindingChoices
  /\ pc = "Idle"
  /\ running = NULL
  /\ pub = NoFile
  /\ tmp = NoFile
  /\ cmdlog = <<>>
  /\ log_tail = ""
  /\ observed = NoFile
  /\ applied = <<>>
  /\ appended = 0
  /\ started = FALSE
  /\ enabled = FALSE
  /\ doubleStart = FALSE

(* ------------------------- lifecycle callbacks -------------------------- *)

\* History of the host's calls; no program state is read or written.
Called(name) ==
  /\ started' = IF name = "Start" THEN TRUE
                ELSE IF name = "Stop" THEN FALSE ELSE started
  /\ enabled' = CASE name = "Enable" -> started
                   [] name \in {"Disable", "Stop"} -> FALSE
                   [] OTHER -> enabled
  /\ doubleStart' = (doubleStart \/ (name = "Start" /\ started))

\* XPLMCreateFlightLoop: the host hands out an id it has not registered.
FreeLoopIds == {l \in LoopIds : fl[l] = "none"}
NewLoopId == CHOOSE l \in FreeLoopIds : \A m \in FreeLoopIds : l <= m

\* XPLMScheduleFlightLoop(id, interval, relative): interval 0 stops the calls
\* ("idle"), a positive interval starts them ("sched").
XPLMScheduleFlightLoop(loops, id, state) == [loops EXCEPT ![id] = state]

\* XPLMDestroyFlightLoop(id)
XPLMDestroyFlightLoop(loops, id) == [loops EXCEPT ![id] = "none"]

\* The flight loops the host holds for the plugin.
Registered == {l \in LoopIds : fl[l] # "none"}

\* LogOpen: keeps an open log; otherwise fopen(g_log_file, "a") as it turns out.
LogOpen(fp, fopenOk) == fp \/ fopenOk

\* LogClose: writes the session trailer to an open log and closes it.
LogClose(fp, tail) == IF fp THEN "=== Session Ended ===" ELSE tail

XPluginStart ==
  /\ pc = "Idle"
  /\ FreeLoopIds # {}
  /\ \E fopenOk \in BOOLEAN :
       /\ g_log_fp' = LogOpen(g_log_fp, fopenOk)
       /\ log_tail' = Log(g_log_fp', log_tail, "Plugin started successfully")
  /\ dr' = host_datarefs
  /\ g_flight_loop_id' = NewLoopId
  /\ fl' = [fl EXCEPT ![NewLoopId] = "idle"]
  /\ Called("Start")
  /\ UNCHANGED <<host_datarefs, tickVars, pub, tmp, cmdlog, clientVars, applied>>

\* XPluginStop without its XPLMDestroyFlightLoop call: only the handle is
\* cleared.
XPluginStop_KeepsLoop ==
  /\ pc = "Idle"
  /\ g_flight_loop_id' = NULL
  /\ log_tail' = LogClose(g_log_fp, Log(g_log_fp, log_tail, "Plugin stopped"))
  /\ g_log_fp' = FALSE
  /\ Called("Stop")
  /\ UNCHANGED <<fl, dr, host_datarefs, tickVars, pub, tmp, cmdlog, clientVars,
                 applied>>

XPluginStop ==
  /\ pc = "Idle"
  /\ IF g_flight_loop_id # NULL
       THEN /\ fl' = XPLMDestroyFlightLoop(fl, g_flight_loop_id)
            /\ g_flight_loop_id' = NULL
       ELSE UNCHANGED <<fl, g_flight_loop_id>>
  /\ log_tail' = LogClose(g_log_fp, Log(g_log_fp, log_tail, "Plugin stopped"))
  /\ g_log_fp' = FALSE
  /\ Called("Stop")
  /\ UNCHANGED <<dr, host_datarefs, tickVars, pub, tmp, cmdlog, clientVars,
                 applied>>

\* if (g_flight_loop_id) XPLMScheduleFlightLoop(g_flight_loop_id, 1.0f, 1);
EnableLoop(id, loops) ==
  IF id # NULL THEN XPLMScheduleFlightLoop(loops, id, "sched") ELSE loops

\* if (g_flight_loop_id) XPLMScheduleFlightLoop(g_flight_loop_id, 0, 0);
DisableLoop(id, loops) ==
  IF id # NULL THEN XPLMScheduleFlightLoop(loops, id, "idle") ELSE loops

XPluginEnable ==
  /\ pc = "Idle"
  /\ fl' = EnableLoop(g_flight_loop_id, fl)
  /\ log_tail' = Log(g_log_fp, log_tail,
                     "Plugin enabled - telemetry streaming started")
  /\ Called("Enable")
  /\ UNCHANGED <<g_flight_loop_id, g_log_fp, dr, host_datarefs, tickVars, pub,
                 tmp, cmdlog, clientVars, applied>>

XPluginDisable ==
  /\ pc = "Idle"
  /\ fl' = DisableLoop(g_flight_loop_id, fl)
  /\ log_tail' = Log(g_log_fp, log_tail,
                     "Plugin disabled - telemetry streaming stopped")
  /\ Called("Disable")
  /\ UNCHANGED <<g_flight_loop_id, g_log_fp, dr, host_datarefs, tickVars, pub,
                 tmp, cmdlog, clientVars, applied>>

(* ------------------------------ one tick -------------------------------- *)

\* A callback that gives up when the side file cannot be opened: it returns
\* to the host without calling ReadCommandsJSONL.
WriteTelemetryJSON_Open_SkipsDrain ==
  /\ pc = "Idle"
  /\ \E l \in LoopIds : fl[l] = "sched" /\ running' = l
  /\ \/ /\ tmp' = File(<<>>)
        /\ pc' = "Write"
        /\ UNCHANGED log_tail
     \/ /\ log_tail' = Log(g_log_fp, log_tail,
                           "Failed to open temp file for writing")
        /\ pc' = "Return"
        /\ UNCHANGED tmp
  /\ UNCHANGED <<progVars, pub, cmdlog, clientVars, applied, histVars>>

\* A tick whose fopen does not truncate a side file that is already there.
WriteTelemetryJSON_Open_NoTruncate ==
  /\ pc = "Idle"
  /\ \E l \in LoopIds : fl[l] = "sched" /\ running' = l
  /\ \/ /\ tmp' = IF tmp.exists THEN tmp ELSE File(<<>>)
        /\ pc' = "Write"
        /\ UNCHANGED log_tail
     \/ /\ log_tail' = Log(g_log_fp, log_tail,
                           "Failed to open temp file for writing")
        /\ pc' = "Drain"
        /\ UNCHANGED tmp
  /\ UNCHANGED <<progVars, pub, cmdlog, clientVars, applied, histVars>>

\* The host calls FlightLoopCallback of a scheduled flight loop; the callback
\* calls WriteTelemetryJSON, which opens the side file with fopen(tmp, "w").
WriteTelemetryJSON_Open ==
  /\ pc = "Idle"
  /\ \E l \in LoopIds : fl[l] = "sched" /\ running' = l
  /\ \/ /\ tmp' = File(<<>>)
        /\ pc' = "Write"
        /\ UNCHANGED log_tail
     \/ /\ log_tail' = Log(g_log_fp, log_tail,
                           "Failed to open temp file for writing")
        /\ pc' = "Drain"
        /\ UNCHANGED tmp
  /\ UNCHANGED <<progVars, pub, cmdlog, clientVars, applied, histVars>>

\* time(NULL), the data ref reads, the 44 fprintf calls and fclose.  No return
\* value is looked at: when the disk fills at call k the file keeps the k
\* pieces written before it.
WriteTelemetryJSON_Write ==
  /\ pc = "Write"
  /\ \E now \in Times, v \in SimVals, k \in FailPoints \cup {NumFprintf} :
       tmp' = File(tmp.data \o SubSeq(Serialize(now, dr, v), 1, k))
  /\ pc' = "Rename"
  /\ UNCHANGED <<progVars, running, pub, cmdlog, log_tail, clientVars, applied,
                 histVars>>

\* A publish that copies the side file to the publication path and leaves the
\* side file behind.
WriteTelemetryJSON_Rename_KeepsSideFile ==
  /\ pc = "Rename"
  /\ \/ /\ pub' = tmp
        /\ tmp' = tmp
     \/ UNCHANGED <<pub, tmp>>
  /\ pc' = "Drain"
  /\ UNCHANGED <<progVars, running, cmdlog, log_tail, clientVars, applied,
                 histVars>>

\* rename(tmp_file, g_input_file): replaces the publication path in one step,
\* or fails and changes nothing; the result is not looked at.
WriteTelemetryJSON_Rename ==
  /\ pc = "Rename"
  /\ \/ /\ pub' = tmp
        /\ tmp' = NoFile
     \/ UNCHANGED <<pub, tmp>>
  /\ pc' = "Drain"
  /\ UNCHANGED <<progVars, running, cmdlog, log_tail, clientVars, applied,
                 histVars>>

IsCompleteLine(l) == l.complete
\* The ids of the newline-terminated records of a log, in file order.
CompleteIds(log) ==
  LET c == SelectSeq(log, IsCompleteLine) IN [j \in 1 .. Len(c) |-> c[j].id]
InSeq(s, x) == \E j \in 1 .. Len(s) : s[j] = x

\* A drain that hands every complete record to the applier and then leaves
\* the file as it is instead of truncating it.
ReadCommandsJSONL_NoTruncate ==
  /\ pc = "Drain"
  /\ applied' = applied \o CompleteIds(cmdlog)
  /\ pc' = "Return"
  /\ UNCHANGED <<progVars, running, fileVars, clientVars, histVars>>

\* A drain that splits the content at "\n" and takes the empty piece after
\* the last newline (all there is in an empty file) for a record, id 0.
ReadCommandsJSONL_PhantomLine ==
  /\ pc = "Drain"
  /\ applied' = applied \o CompleteIds(cmdlog) \o <<0>>
  /\ cmdlog' = SelectSeq(cmdlog, LAMBDA l : ~l.complete)
  /\ pc' = "Return"
  /\ UNCHANGED <<progVars, running, pub, tmp, log_tail, clientVars, histVars>>

\* ReadCommandsJSONL: the body is a comment; nothing is read, applied or
\* truncated.
ReadCommandsJSONL ==
  /\ pc = "Drain"
  /\ pc' = "Return"
  /\ UNCHANGED <<progVars, running, fileVars, clientVars, applied, histVars>>

\* return 1.0f: the host calls this flight loop again in one second.
FlightLoopCallback_Return ==
  /\ pc = "Return"
  /\ fl' = [fl EXCEPT ![running] = "sched"]
  /\ pc' = "Idle"
  /\ running' = NULL
  /\ UNCHANGED <<g_flight_loop_id, g_log_fp, dr, host_datarefs, fileVars,
                 clientVars, applied, histVars>>

Tick ==
  \/ WriteTelemetryJSON_Open
  \/ WriteTelemetryJSON_Write
  \/ WriteTelemetryJSON_Rename
  \/ ReadCommandsJSONL
  \/ FlightLoopCallback_Return

(* ------------------------------ the client ------------------------------ *)

\* The client opens the publication path and reads what is there.
Reader ==
  /\ observed' = pub
  /\ UNCHANGED <<progVars, tickVars, fileVars, applied, appended, histVars>>

Kinds == {"set_com1_frequency", "bogus"}
Line(i, k, c) == [id |-> i, kind |-> k, complete |-> c]
EndsInFragment(log) == log # <<>> /\ ~log[Len(log)].complete

\* The client appends one record and its newline in a single write.
ClientAppendRecord ==
  /\ appended < MaxAppend
  /\ ~EndsInFragment(cmdlog)
  /\ \E k \in Kinds : cmdlog' = Append(cmdlog, Line(appended + 1, k, TRUE))
  /\ appended' = appended + 1
  /\ UNCHANGED <<progVars, tickVars, pub, tmp, log_tail, observed, applied,
                 histVars>>

\* The client's append has reached the file only in part: no newline yet.
ClientAppendFragment ==
  /\ appended < MaxAppend
  /\ ~EndsInFragment(cmdlog)
  /\ \E k \in Kinds : cmdlog' = Append(cmdlog, Line(appended + 1, k, FALSE))
  /\ appended' = appended + 1
  /\ UNCHANGED <<progVars, tickVars, pub, tmp, log_tail, observed, applied,
                 histVars>>

\* The rest of the record and its newline arrive.
ClientCompleteFragment ==
  /\ EndsInFragment(cmdlog)
  /\ cmdlog' = [cmdlog EXCEPT ![Len(cmdlog)].complete = TRUE]
  /\ UNCHANGED <<progVars, tickVars, pub, tmp, log_tail, observed, applied,
                 appended, histVars>>

Client ==
  \/ Reader
  \/ ClientAppendRecord
  \/ ClientAppendFragment
  \/ ClientCompleteFragment

Lifecycle ==
  \/ XPluginStart
  \/ XPluginStop
  \/ XPluginEnable
  \/ XPluginDisable

Next == Lifecycle \/ Tick \/ Client

Spec == Init /\ [][Next]_vars

\* The host calls a scheduled flight loop again and again, and a tick that
\* has begun runs to its return: weak fairness of the tick's steps.
LiveSpec == Init /\ [][Next]_vars /\ WF_vars(Tick)

(* ------------------------------- claims --------------------------------- *)

\* C1: a reader that opens the publication path at any moment finds no file
\* or a complete document, never a partly written one.
C1_ReaderSeesNoPartialDocument ==
  observed.exists => IsComplete(observed.data)

\* C2: when the write of the side file fails part-way, the publication path
\* keeps the content it had: the step that follows a failed write does not
\* change it.
C2_FailedWriteLeavesPublication ==
  [][(pc = "Rename" /\ IsPartial(tmp)) => pub' = pub]_vars

\* C3: as long as ticks keep arriving, every complete record in the command
\* log is returned by some later drain.
C3_AppendedRecordIsDrained ==
  ([]<>(pc = "Return")) =>
    \A i \in 1 .. MaxAppend :
      (\E j \in 1 .. Len(cmdlog) : cmdlog[j].id = i /\ cmdlog[j].complete)
        ~> InSeq(applied, i)

C5_DrainLeavesOnlyFragment ==
  [][(ReadCommandsJSONL /\ EndsInFragment(cmdlog)) =>
       /\ cmdlog' = <<cmdlog[Len(cmdlog)]>>
       /\ applied' = applied \o CompleteIds(cmdlog)]_vars

\* C6: a drain of a log that holds only complete records leaves it empty.
C6_DrainEmptiesLog ==
  [][(ReadCommandsJSONL /\ cmdlog # <<>> /\ ~EndsInFragment(cmdlog)) =>
       cmdlog' = <<>>]_vars

\* C7: a drain of an empty log hands nothing to the applier and leaves the
\* log empty, each time it is repeated.
C7_EmptyDrainChangesNothing ==
  [][(ReadCommandsJSONL /\ cmdlog = <<>>) =>
       (cmdlog' = <<>> /\ applied' = applied)]_vars

\* A drain has just run over an empty log, in a tick after the first: the
\* publication path was written by an earlier tick, the side file is this
\* tick's.
C7_RepeatedEmptyDrain ==
  /\ pc = "Return"
  /\ cmdlog = <<>>
  /\ applied = <<>>
  /\ pub.exists /\ tmp.exists

\* C8: a record of an unknown kind does not block the queue: the drain that
\* meets it removes it and still attempts every complete record after it.
C8_BadRecordDoesNotBlock ==
  [][ReadCommandsJSONL =>
       \A i \in 1 .. Len(cmdlog) :
         (cmdlog[i].complete /\ cmdlog[i].kind = "bogus") =>
           /\ \A j \in 1 .. Len(cmdlog') : cmdlog'[j].id # cmdlog[i].id
           /\ \A j \in (i + 1) .. Len(cmdlog) :
                cmdlog[j].complete => InSeq(applied', cmdlog[j].id)]_vars

\* C9: while every Start is followed by a Stop before the next Start, the
\* host holds at most one flight loop of the plugin and none once Stop has
\* returned; and a second Enable (Disable) right after an Enable (Disable)
\* would leave the flight loops as the first one left them.
C9_NoLeakAndIdempotent ==
  /\ [](~doubleStart => Cardinality(Registered) <= 1)
  /\ [][(XPluginStop /\ ~doubleStart) => Registered' = {}]_vars
  /\ [][XPluginEnable => EnableLoop(g_flight_loop_id', fl') = fl']_vars
  /\ [][XPluginDisable => DisableLoop(g_flight_loop_id', fl') = fl']_vars

\* Enable has been called on a plugin started without misuse, and ticks have
\* run since an earlier start.
C9_EnabledAfterCleanStart ==
  /\ ~doubleStart
  /\ g_flight_loop_id # NULL
  /\ fl[g_flight_loop_id] = "sched"
  /\ log_tail = "Plugin enabled - telemetry streaming started"
  /\ pub.exists

\* C10: a Start that comes with no Stop before it registers nothing new and
\* keeps the existing flight loop; a Stop, Enable or Disable on a plugin that
\* is not started changes no state.
C10_MisuseIsNoOp ==
  /\ [][(XPluginStart /\ started) =>
          (fl' = fl /\ g_flight_loop_id' = g_flight_loop_id)]_vars
  /\ [][((XPluginStop \/ XPluginEnable \/ XPluginDisable) /\ ~started) =>
          UNCHANGED <<progVars, fileVars>>]_vars

\* The phases of a tick: Sampling is WriteTelemetryJSON (pc "Write" and
\* "Rename", or the failed fopen, which goes straight on), Draining is
\* ReadCommandsJSONL (pc "Drain"), and "Return" is the return to the host.
PhaseOrder ==
  {<<"Idle", "Write">>, <<"Idle", "Drain">>, <<"Write", "Rename">>,
   <<"Rename", "Drain">>, <<"Drain", "Return">>, <<"Return", "Idle">>}

\* C11: a tick goes Idle -> Sampling -> Draining -> Idle in that order: the
\* only way back to Idle is through the drain, after a sampling that worked
\* or failed alike, and a tick that has begun does get back to Idle.
C11_TickRunsPhasesInOrder ==
  /\ [][pc' # pc => <<pc, pc'>> \in PhaseOrder]_vars
  /\ []<>(pc = "Idle")

\* The drain has run in a tick whose fopen of the side file failed: no tick
\* so far has created the side file, and this one logged the failure.
C11_DrainAfterFailedSampling ==
  /\ pc = "Return"
  /\ ~tmp.exists /\ ~pub.exists
  /\ log_tail = "Failed to open temp file for writing"

\* The lines Log writes at level ERROR.
ErrorLines == {"Failed to open temp file for writing"}

\* C12: with the log open, the sampling phase of a tick ends with an error
\* line in the log whenever the side file could not be created, was written
\* only in part, or could not be renamed.
C12_SamplingFailureIsLogged ==
  /\ [][(g_log_fp /\ pc = "Idle" /\ pc' = "Drain") =>
          log_tail' \in ErrorLines]_vars
  /\ [][(g_log_fp /\ pc = "Rename" /\ pc' = "Drain"
           /\ (IsPartial(tmp) \/ tmp'.exists)) =>
          log_tail' \in ErrorLines]_vars

\* The sampled fields of the document: key, the handle it is read through,
\* and the conversion it is printed with.
Fields ==
  { <<"latitude", "dr_lat", "%.8f">>, <<"longitude", "dr_lon", "%.8f">>,
    <<"altitude_msl_m", "dr_alt_msl", "%.2f">>,
    <<"altitude_agl_m", "dr_alt_agl", "%.2f">>,
    <<"heading_mag", "dr_hdg_mag", "%.2f">>,
    <<"heading_true", "dr_hdg_true", "%.2f">>,
    <<"pitch", "dr_pitch", "%.2f">>, <<"roll", "dr_roll", "%.2f">>,
    <<"ground_speed_mps", "dr_gnd_speed", "%.2f">>,
    <<"ias_kts", "dr_ias", "%.2f">>, <<"tas_mps", "dr_tas", "%.2f">>,
    <<"vertical_speed_fpm", "dr_vs", "%.2f">>,
    <<"com1_hz", "dr_com1_freq", "%d">>,
    <<"com1_standby_hz", "dr_com1_stdby", "%d">>,
    <<"com2_hz", "dr_com2_freq", "%d">>,
    <<"com2_standby_hz", "dr_com2_stdby", "%d">>,
    <<"nav1_hz", "dr_nav1_freq", "%d">>, <<"nav2_hz", "dr_nav2_freq", "%d">>,
    <<"code", "dr_xpdr_code", "%d">>, <<"mode", "dr_xpdr_mode", "%d">>,
    <<"altitude_ft", "dr_ap_alt", "%.0f">>, <<"heading", "dr_ap_hdg", "%.0f">>,
    <<"vs_fpm", "dr_ap_vs", "%.0f">>,
    <<"on_ground", "dr_on_ground", "%s">>, <<"paused", "dr_paused", "%s">> }

\* The fields printed without a handle.
FixedKeys == {"timestamp", "simulator", "aircraft"}

Render(fmt, x) ==
  CASE fmt = "%.8f" -> Fmt8(x)
    [] fmt = "%.2f" -> Fmt2(x)
    [] fmt = "%.0f" -> Fmt0(x)
    [] fmt = "%s"   -> FmtBool(x)
    [] OTHER        -> x

\* Document d has every field of the schema, an unbound one as the sentinel
\* 0 / false and a bound one as the printed form of a value read.
HasEveryField(d, handles) ==
  /\ \A k \in FixedKeys : \E i \in DOMAIN d : d[i].key = k
  /\ \A fd \in Fields :
       \E i \in DOMAIN d :
         /\ d[i].key = fd[1]
         /\ IF fd[2] \in handles
              THEN \E v \in SimVals : d[i].val = Render(fd[3], v)
              ELSE d[i].val = Render(fd[3], 0)

\* C13: every document put at the publication path has every field of the
\* schema: the sentinel 0 / false where the handle is NULL, and the value read
\* in that tick where it is bound.
C13_PublishedSnapshotHasEveryField ==
  [][pub' # pub => HasEveryField(pub'.data, dr)]_vars

\* What no step of a publish may touch: the command log, the log file, the
\* handles, the flight loops and what has been applied.
PublishFrame == <<progVars, cmdlog, log_tail, applied>>

\* C14: a publish touches the side file and the publication path only.  The
\* fopen creates the side file, the writes fill it, and the rename either
\* removes it and puts its document at the publication path, or changes
\* neither; the command log and the lifecycle and registration state are the
\* same when the call returns.
C14_PublishTouchesOnlyTwoFiles ==
  /\ [][(pc = "Idle" /\ pc' = "Write") =>
          (tmp'.exists /\ pub' = pub /\ UNCHANGED PublishFrame)]_vars
  /\ [][(pc = "Write" /\ pc' = "Rename") =>
          (tmp'.exists /\ pub' = pub /\ UNCHANGED PublishFrame)]_vars
  /\ [][(pc = "Rename" /\ pc' = "Drain") =>
          /\ UNCHANGED PublishFrame
          /\ IF tmp'.exists THEN UNCHANGED <<pub, tmp>>
                            ELSE pub' = tmp /\ tmp' = NoFile]_vars

\* A successful publish has just returned, with records waiting in the
\* command log.
C14_PublishedWithCommandsPending ==
  /\ pc = "Drain"
  /\ g_log_fp /\ log_tail \notin ErrorLines
  /\ ~tmp.exists
  /\ pub.exists /\ IsComplete(pub.data)
  /\ cmdlog # <<>>
  /\ g_flight_loop_id # NULL

\* C15: a tick begins, and the publication path changes, only while the
\* plugin is started and enabled: not after XPluginDisable or XPluginStop has
\* returned and before the next XPluginEnable of a started plugin.
C15_TicksOnlyWhileEnabled ==
  /\ [][(pc = "Idle" /\ pc' # "Idle") => (started /\ enabled)]_vars
  /\ [][pub' # pub => (started /\ enabled)]_vars

\* The documents a tick can leave in the side file under the current handles:
\* the document of a sample taken in the tick, or a leading part of it.
FreshDocuments ==
  { SubSeq(Serialize(now, dr, v), 1, k) :
      now \in Times, v \in SimVals, k \in FailPoints \cup {NumFprintf} }

\* C16: a tick leaves its flight loop scheduled whatever happened in it, so
\* while the plugin stays enabled a tick that is returning is followed by
\* another; a tick that opens the side file starts it empty, so what is renamed
\* is written in that tick, and a rename that succeeds puts that document at
\* the publication path.
C16_FailedPublishIsRecoverable ==
  /\ [][(pc = "Return" /\ pc' = "Idle") => fl'[running] = "sched"]_vars
  /\ [](pc = "Write" => tmp = File(<<>>))
  /\ [](pc = "Rename" => (tmp.exists /\ tmp.data \in FreshDocuments))
  /\ [][(pc = "Rename" /\ ~tmp'.exists) => pub' = tmp]_vars
  /\ (pc = "Return" /\ enabled) ~> (pc \in {"Write", "Drain"} \/ ~enabled)

\* A tick of the enabled plugin is about to return after a publish that
\* failed: the document was cut short and the rename failed, so the side file
\* stays behind and nothing is published.
C16_FailedTickReturning ==
  /\ pc = "Return"
  /\ started /\ enabled
  /\ IsPartial(tmp)
  /\ ~pub.exists

\* C17: the publication path changes only when a tick whose publish fully
\* succeeded puts the complete document of its own sample there, so what it
\* holds is always the sample of the latest such tick.
C17_PublicationNeverRegresses ==
  [][pub' # pub =>
       (pc = "Rename" /\ IsComplete(tmp.data) /\ pub' = tmp)]_vars

====
